---- MODULE Spec2Model ----
(***************************************************************************)
(* Inspectify: the check battery and report of validator.py and the upload *)
(* and validate request handlers of upload.py / validate.py.               *)
(*                                                                         *)
(* A DataFrame is [nrows, columns]; a column is [name, dtype, values]; a   *)
(* cell is [cls, num, s] with cls "null" (NaN/None/NaT), "fin", "pinf",    *)
(* "ninf" (float cells), "str", "int" (object cells) or "ts" (datetime).   *)
(* A Python float computed by the code is [cls, num, den]: the exact       *)
(* rational num/den, or one of the IEEE specials "pinf", "ninf", "nan".    *)
(*                                                                         *)
(* SpecBattery runs the validator's checks and grouping over tables; Spec  *)
(* serves upload and validate requests one at a time; SpecConcurrent       *)
(* serves one upload and one validate request in parallel, step by step.   *)
(***************************************************************************)
EXTENDS Integers, Sequences, FiniteSets, TLC

\* ------------------------------------------------------------------ bounds
MaxRows == 3
MaxCols == 2
LongSlack == 1
MaxTime == 2

\* ------------------------------------------------------- program constants
MaxStrLen == 255
CatLimit == 30
SampleSize == 5

\* ------------------------------------------------------------------- cells
Null == [cls |-> "null", num |-> 0, s |-> <<>>]
Fin(n) == [cls |-> "fin", num |-> n, s |-> <<>>]
PInf == [cls |-> "pinf", num |-> 0, s |-> <<>>]
NInf == [cls |-> "ninf", num |-> 0, s |-> <<>>]
Str(chars) == [cls |-> "str", num |-> 0, s |-> chars]
IntObj(n) == [cls |-> "int", num |-> n, s |-> <<>>]
Ts(n) == [cls |-> "ts", num |-> n, s |-> <<>>]
Rep(c, n) == [i \in 1..n |-> c]

\* Series.isnull() / notnull() on one cell
isnull(v) == v.cls = "null"
notnull(v) == ~isnull(v)

\* ------------------------------------------------------------ Python floats
Flt(n, d) == [cls |-> "fin", num |-> n, den |-> d]
FNaN == [cls |-> "nan", num |-> 0, den |-> 1]

\* float(cell) for a cell of a numeric column
float(v) == [cls |-> v.cls, num |-> v.num, den |-> 1]

\* x <= y on floats: every comparison with NaN is False
Leq(x, y) ==
    IF x.cls = "nan" \/ y.cls = "nan" THEN FALSE
    ELSE IF x.cls = "ninf" \/ y.cls = "pinf" THEN TRUE
    ELSE IF x.cls = "pinf" \/ y.cls = "ninf" THEN FALSE
    ELSE x.num * y.den <= y.num * x.den

\* x + y on floats: inf + -inf is NaN
FAdd(x, y) ==
    IF x.cls = "nan" \/ y.cls = "nan" THEN FNaN
    ELSE IF x.cls = "fin" /\ y.cls = "fin"
         THEN Flt(x.num * y.den + y.num * x.den, x.den * y.den)
    ELSE IF x.cls = "fin" THEN y
    ELSE IF y.cls = "fin" THEN x
    ELSE IF x.cls = y.cls THEN x
    ELSE FNaN

\* x / n on floats, n a positive count
FDiv(x, n) == IF x.cls = "fin" THEN Flt(x.num, x.den * n) ELSE x

\* p/q rounded to an integer, ties to even (q > 0)
RoundHalfEven(p, q) ==
    LET fl == p \div q
        rem == p % q
    IN  IF 2 * rem < q THEN fl
        ELSE IF 2 * rem > q THEN fl + 1
        ELSE IF fl % 2 = 0 THEN fl ELSE fl + 1

\* round(x, digits) of a float, kept as the integer x * 10^digits (scale = 10^digits)
round(x, scale) ==
    IF x.cls = "fin" THEN Flt(RoundHalfEven(x.num * scale, x.den), scale) ELSE x

\* ------------------------------------------------------------ text of cells
DigitChar(d) == <<"0", "1", "2", "3", "4", "5", "6", "7", "8", "9">>[d + 1]

RECURSIVE NatStr(_)
NatStr(n) == IF n < 10 THEN <<DigitChar(n)>>
             ELSE NatStr(n \div 10) \o <<DigitChar(n % 10)>>

\* str(n) of a Python int
IntStr(n) == IF n < 0 THEN <<"-">> \o NatStr(-n) ELSE NatStr(n)

\* astype(str) on one non-null cell of an object column
astype_str(v) == IF v.cls = "int" THEN IntStr(v.num) ELSE v.s

\* ------------------------------------------------------- Series operations
RECURSIVE CountNull(_)
CountNull(vals) ==
    IF vals = <<>> THEN 0
    ELSE (IF isnull(Head(vals)) THEN 1 ELSE 0) + CountNull(Tail(vals))

dropna(vals) == SelectSeq(vals, notnull)

SeqToSet(vals) == {vals[i] : i \in 1..Len(vals)}

\* Series.nunique() of a series without nulls
nunique(vals) == Cardinality(SeqToSet(vals))

\* Series.unique(): the distinct values in order of first appearance
RECURSIVE unique(_)
unique(vals) ==
    IF vals = <<>> THEN <<>>
    ELSE LET front == unique(SubSeq(vals, 1, Len(vals) - 1))
             last == vals[Len(vals)]
         IN  IF last \in SeqToSet(front) THEN front ELSE Append(front, last)

\* Series.min() / max() of a non-empty numeric series without nulls
RECURSIVE FMin(_)
FMin(fs) == IF Len(fs) = 1 THEN fs[1]
            ELSE LET m == FMin(Tail(fs))
                 IN  IF Leq(Head(fs), m) THEN Head(fs) ELSE m

RECURSIVE FMax(_)
FMax(fs) == IF Len(fs) = 1 THEN fs[1]
            ELSE LET m == FMax(Tail(fs))
                 IN  IF Leq(m, Head(fs)) THEN Head(fs) ELSE m

Floats(vals) == [i \in 1..Len(vals) |-> float(vals[i])]

RECURSIVE FSum(_)
FSum(fs) == IF fs = <<>> THEN Flt(0, 1) ELSE FAdd(Head(fs), FSum(Tail(fs)))

\* Series.mean(): sum / count
mean(vals) == FDiv(FSum(Floats(vals)), Len(vals))

RECURSIVE Insert(_, _)
Insert(x, sorted) ==
    IF sorted = <<>> THEN <<x>>
    ELSE IF Leq(x, Head(sorted)) THEN <<x>> \o sorted
    ELSE <<Head(sorted)>> \o Insert(x, Tail(sorted))

RECURSIVE Sort(_)
Sort(fs) == IF fs = <<>> THEN <<>> ELSE Insert(Head(fs), Sort(Tail(fs)))

\* Series.median(): the middle value, or the mean of the two middle values
median(vals) ==
    LET sorted == Sort(Floats(vals))
        n == Len(sorted)
    IN  IF n % 2 = 1 THEN sorted[(n + 1) \div 2]
        ELSE FDiv(FAdd(sorted[n \div 2], sorted[n \div 2 + 1]), 2)

RECURSIVE MinLen(_)
MinLen(vals) ==
    IF Len(vals) = 1 THEN Len(astype_str(vals[1]))
    ELSE LET m == MinLen(Tail(vals))
             h == Len(astype_str(Head(vals)))
         IN  IF h <= m THEN h ELSE m

RECURSIVE MaxLen(_)
MaxLen(vals) ==
    IF Len(vals) = 1 THEN Len(astype_str(vals[1]))
    ELSE LET m == MaxLen(Tail(vals))
             h == Len(astype_str(Head(vals)))
         IN  IF h >= m THEN h ELSE m

\* ------------------------------------------------------ dtype classification
is_numeric_dtype(dtype) == dtype \in {"int64", "float64"}
is_string_dtype(dtype) == dtype = "object"
is_datetime64_any_dtype(dtype) == dtype = "datetime64[ns]"

\* ------------------------------------------------- table-level validations
\* row_count_check with the comparison off by one (row_count >= 0)
row_count_check_nonneg(df) ==
    LET row_count == df.nrows
    IN  [expectation_type |-> "expect_table_row_count_to_be_greater_than",
         success |-> row_count >= 0,
         column |-> <<>>,
         result |-> [observed_value |-> row_count,
                     element_count |-> row_count,
                     missing_count |-> 0]]

\* Test 1: row count check
row_count_check(df) ==
    LET row_count == df.nrows
    IN  [expectation_type |-> "expect_table_row_count_to_be_greater_than",
         success |-> row_count > 0,
         column |-> <<>>,
         result |-> [observed_value |-> row_count,
                     element_count |-> row_count,
                     missing_count |-> 0]]

\* df.columns.tolist()
column_names(df) == [i \in 1..Len(df.columns) |-> df.columns[i].name]

\* Test 2: column existence check
columns_match_check(df) ==
    LET expected_columns == column_names(df)
    IN  [expectation_type |-> "expect_table_columns_to_match_set",
         success |-> TRUE,
         column |-> <<>>,
         result |-> [observed_value |-> expected_columns,
                     details |-> <<"Table has", Len(expected_columns), "columns">>]]

\* Test 3: no duplicate columns
columns_unique_check(df) ==
    LET has_duplicate_cols ==
            Len(df.columns) # Cardinality(SeqToSet(column_names(df)))
    IN  [expectation_type |-> "expect_table_columns_to_be_unique",
         success |-> ~has_duplicate_cols,
         column |-> <<>>,
         result |-> [observed_value |->
                        IF ~has_duplicate_cols THEN "No duplicate columns"
                        ELSE "Duplicate columns found"]]

table_checks(df) ==
    <<row_count_check(df), columns_match_check(df), columns_unique_check(df)>>

\* -------------------------------------------------- column-wise validations
\* missing_percent without the multiplication by 100 (a fraction, not a percent)
missing_percent_fraction(null_count, nrows) ==
    round(IF nrows > 0 THEN Flt(null_count, nrows) ELSE Flt(0, 1), 100)

\* null_percent, rounded to 2 decimals (a float in hundredths)
missing_percent(null_count, nrows) ==
    round(IF nrows > 0 THEN Flt(null_count * 100, nrows) ELSE Flt(0, 1), 100)

\* Test: null value check
not_null_check(df, col) ==
    LET null_count == CountNull(col.values)
    IN  [expectation_type |-> "expect_column_values_to_not_be_null",
         success |-> null_count = 0,
         column |-> <<col.name>>,
         result |-> [element_count |-> df.nrows,
                     missing_count |-> null_count,
                     missing_percent |-> missing_percent(null_count, df.nrows),
                     unexpected_count |-> null_count]]

type_check(col, observed, details) ==
    [expectation_type |-> "expect_column_values_to_be_in_type_list",
     success |-> TRUE,
     column |-> <<col.name>>,
     result |-> [observed_value |-> observed, details |-> details]]

\* Test: value range check
value_range_check(col) ==
    LET col_data_clean == dropna(col.values)
        col_min == FMin(Floats(col_data_clean))
        col_max == FMax(Floats(col_data_clean))
    IN  [expectation_type |-> "expect_column_values_to_be_between",
         success |-> TRUE,
         column |-> <<col.name>>,
         result |-> [observed_value |-> [min |-> col_min, max |-> col_max],
                     element_count |-> Len(col_data_clean),
                     missing_count |-> CountNull(col.values)]]

\* Test: mean check
mean_check(col) ==
    LET col_data_clean == dropna(col.values)
        col_min == FMin(Floats(col_data_clean))
        col_max == FMax(Floats(col_data_clean))
        col_mean == mean(col_data_clean)
    IN  [expectation_type |-> "expect_column_mean_to_be_between",
         success |-> Leq(col_min, col_mean) /\ Leq(col_mean, col_max),
         column |-> <<col.name>>,
         result |-> [observed_value |-> round(col_mean, 10000),
                     details |-> [text |-> "Mean is within range",
                                  min |-> col_min, max |-> col_max]]]

\* Test: median check
median_check(col) ==
    LET col_data_clean == dropna(col.values)
        col_min == FMin(Floats(col_data_clean))
        col_max == FMax(Floats(col_data_clean))
        col_median == median(col_data_clean)
    IN  [expectation_type |-> "expect_column_median_to_be_between",
         success |-> Leq(col_min, col_median) /\ Leq(col_median, col_max),
         column |-> <<col.name>>,
         result |-> [observed_value |-> round(col_median, 10000),
                     details |-> [text |-> "Median is within range",
                                  min |-> col_min, max |-> col_max]]]

\* unique_check comparing against the non-null count instead of len(df)
unique_check_clean_len(df, col) ==
    LET col_data_clean == dropna(col.values)
    IN  IF nunique(col_data_clean) = Len(col_data_clean)
        THEN <<[expectation_type |-> "expect_column_values_to_be_unique",
                success |-> TRUE,
                column |-> <<col.name>>,
                result |-> [observed_value |-> "All values are unique",
                            unique_count |-> nunique(col_data_clean),
                            total_count |-> df.nrows]]>>
        ELSE <<>>

\* Test: uniqueness, emitted only when every row holds a distinct non-null value
unique_check(df, col) ==
    LET col_data_clean == dropna(col.values)
    IN  IF nunique(col_data_clean) = df.nrows
        THEN <<[expectation_type |-> "expect_column_values_to_be_unique",
                success |-> TRUE,
                column |-> <<col.name>>,
                result |-> [observed_value |-> "All values are unique",
                            unique_count |-> nunique(col_data_clean),
                            total_count |-> df.nrows]]>>
        ELSE <<>>

\* length_check with the limit exclusive (max_length < 255)
length_check_strict(col) ==
    LET col_data_clean == dropna(col.values)
        min_length == MinLen(col_data_clean)
        max_length == MaxLen(col_data_clean)
        all_valid_length == max_length < MaxStrLen
    IN  [expectation_type |-> "expect_column_value_lengths_to_be_between",
         success |-> all_valid_length,
         column |-> <<col.name>>,
         result |-> [observed_value |-> [min |-> min_length, max |-> max_length],
                     details |-> IF all_valid_length
                                 THEN "String lengths within acceptable range"
                                 ELSE "Some strings exceed 255 chars"]]

\* Test: string length check
length_check(col) ==
    LET col_data_clean == dropna(col.values)
        min_length == MinLen(col_data_clean)
        max_length == MaxLen(col_data_clean)
        all_valid_length == max_length <= MaxStrLen
    IN  [expectation_type |-> "expect_column_value_lengths_to_be_between",
         success |-> all_valid_length,
         column |-> <<col.name>>,
         result |-> [observed_value |-> [min |-> min_length, max |-> max_length],
                     details |-> IF all_valid_length
                                 THEN "String lengths within acceptable range"
                                 ELSE "Some strings exceed 255 chars"]]

\* the if / elif / elif chain on the column's dtype
type_branch(df, col) ==
    IF is_numeric_dtype(col.dtype)
    THEN <<type_check(col, col.dtype, "Column is numeric type"),
           value_range_check(col), mean_check(col), median_check(col)>>
         \o unique_check(df, col)
    ELSE IF is_string_dtype(col.dtype)
    THEN <<type_check(col, "string/object", "Column is string/object type"),
           length_check(col)>>
         \o unique_check(df, col)
    ELSE IF is_datetime64_any_dtype(col.dtype)
    THEN <<type_check(col, "datetime", "Column is datetime type")>>
    ELSE <<>>

\* allowed_values[:5] if len(allowed_values) > 5 else allowed_values
partial_list(allowed_values) ==
    IF Len(allowed_values) > SampleSize
    THEN SubSeq(allowed_values, 1, SampleSize) ELSE allowed_values

\* in_set_check with the limit inclusive (unique_count <= 30)
in_set_check_inclusive(col) ==
    LET col_data_clean == dropna(col.values)
        unique_count == nunique(col_data_clean)
        allowed_values == unique(col_data_clean)
        unexpected == 0
    IN  IF 0 < unique_count /\ unique_count <= CatLimit
        THEN <<[expectation_type |-> "expect_column_values_to_be_in_set",
                success |-> unexpected = 0,
                column |-> <<col.name>>,
                result |-> [observed_value |-> unique_count,
                            element_count |-> Len(col_data_clean),
                            missing_count |-> CountNull(col.values),
                            unexpected_count |-> unexpected,
                            partial_unexpected_list |-> partial_list(allowed_values)]]>>
        ELSE <<>>

\* Categorical value check (for columns with few unique values)
in_set_check(col) ==
    LET col_data_clean == dropna(col.values)
        unique_count == nunique(col_data_clean)
        allowed_values == unique(col_data_clean)
        unexpected == 0
    IN  IF 0 < unique_count /\ unique_count < CatLimit
        THEN <<[expectation_type |-> "expect_column_values_to_be_in_set",
                success |-> unexpected = 0,
                column |-> <<col.name>>,
                result |-> [observed_value |-> unique_count,
                            element_count |-> Len(col_data_clean),
                            missing_count |-> CountNull(col.values),
                            unexpected_count |-> unexpected,
                            partial_unexpected_list |-> partial_list(allowed_values)]]>>
        ELSE <<>>

\* column_checks with the categorical check moved ahead of the dtype branch
column_checks_categorical_first(df, col) ==
    IF Len(dropna(col.values)) = 0
    THEN <<not_null_check(df, col)>>
    ELSE <<not_null_check(df, col)>> \o in_set_check(col) \o type_branch(df, col)

\* the body of "for col in df.columns" for one column
column_checks(df, col) ==
    IF Len(dropna(col.values)) = 0
    THEN <<not_null_check(df, col)>>
    ELSE <<not_null_check(df, col)>> \o type_branch(df, col) \o in_set_check(col)

RECURSIVE all_column_checks(_, _)
all_column_checks(df, cols) ==
    IF cols = <<>> THEN <<>>
    ELSE column_checks(df, Head(cols)) \o all_column_checks(df, Tail(cols))

\* a battery that stops after the table-scoped checks when the table is empty
run_checks_short_circuit(df) ==
    IF df.nrows = 0 THEN table_checks(df)
    ELSE table_checks(df) \o all_column_checks(df, df.columns)

\* validation_results as it stands when the column loop ends
run_checks(df) == table_checks(df) \o all_column_checks(df, df.columns)

\* ------------------------------------------------------------ report model
RECURSIVE CountSuccess(_)
CountSuccess(results) ==
    IF results = <<>> THEN 0
    ELSE (IF Head(results).success THEN 1 ELSE 0) + CountSuccess(Tail(results))

\* statistics with the success rate left as a fraction (no * 100)
statistics_fraction(results) ==
    LET total_expectations == Len(results)
        successful == CountSuccess(results)
        failed == total_expectations - successful
        success_rate == IF total_expectations > 0
                        THEN Flt(successful, total_expectations)
                        ELSE Flt(0, 1)
    IN  [total_expectations |-> total_expectations,
         successful |-> successful,
         failed |-> failed,
         success_rate |-> success_rate]

\* Calculate statistics
statistics(results) ==
    LET total_expectations == Len(results)
        successful == CountSuccess(results)
        failed == total_expectations - successful
        success_rate == IF total_expectations > 0
                        THEN Flt(successful * 100, total_expectations)
                        ELSE Flt(0, 1)
    IN  [total_expectations |-> total_expectations,
         successful |-> successful,
         failed |-> failed,
         success_rate |-> success_rate]

IsGlobal(res) == res.column = <<>>

\* global_expectations: the results whose column is None, in emission order
global_expectations(results) == SelectSeq(results, IsGlobal)

\* a grouping that assigns instead of appending: column_expectations[col] = [res]
RECURSIVE column_expectations_overwrite(_)
column_expectations_overwrite(results) ==
    IF results = <<>> THEN <<>>
    ELSE LET front == column_expectations_overwrite(SubSeq(results, 1, Len(results) - 1))
             res == results[Len(results)]
         IN  IF IsGlobal(res) THEN front
             ELSE IF \E i \in 1..Len(front) : front[i].col = res.column[1]
             THEN [i \in 1..Len(front) |->
                     IF front[i].col = res.column[1]
                     THEN [front[i] EXCEPT !.expectations = <<res>>]
                     ELSE front[i]]
             ELSE Append(front, [col |-> res.column[1], expectations |-> <<res>>])

\* column_expectations: a dict keyed by column name in order of first
\* appearance, as a sequence of [col, expectations]
RECURSIVE column_expectations(_)
column_expectations(results) ==
    IF results = <<>> THEN <<>>
    ELSE LET front == column_expectations(SubSeq(results, 1, Len(results) - 1))
             res == results[Len(results)]
         IN  IF IsGlobal(res) THEN front
             ELSE IF \E i \in 1..Len(front) : front[i].col = res.column[1]
             THEN [i \in 1..Len(front) |->
                     IF front[i].col = res.column[1]
                     THEN [front[i] EXCEPT !.expectations = Append(@, res)]
                     ELSE front[i]]
             ELSE Append(front, [col |-> res.column[1], expectations |-> <<res>>])

\* what the rendered document shows of the run
build_report(results) ==
    [stats |-> statistics(results),
     global |-> global_expectations(results),
     columns |-> column_expectations(results)]

NoReport == [stats |-> statistics(<<>>), global |-> <<>>, columns |-> <<>>]

\* ---------------------------------------------------------- input tables
ColName(i) == <<"a", "b", "c", "d">>[i]

Vals(dtype) ==
    IF dtype = "float64" THEN {Null, Fin(-1), Fin(0), Fin(2), PInf, NInf}
    ELSE IF dtype = "int64" THEN {Fin(-1), Fin(0), Fin(2)}
    ELSE IF dtype = "object"
         THEN {Null, Str(<<>>), Str(<<"a">>), Str(<<"b">>), Str(<<"a", "b">>),
               IntObj(10)}
    ELSE {Null, Ts(1), Ts(2)}

PoorVals(dtype) ==
    IF dtype = "float64" THEN {Null, Fin(1)}
    ELSE IF dtype = "object" THEN {Null, Str(<<"a">>)}
    ELSE {Null, Ts(1)}

Column(name, dtype, values) == [name |-> name, dtype |-> dtype, values |-> values]

\* one column, every combination of the cell values of its dtype
OneColumnTables ==
    UNION {{[nrows |-> n, columns |-> <<Column(ColName(1), d, vs)>>] :
                vs \in [1..n -> Vals(d)]} :
            n \in 0..MaxRows,
            d \in {"float64", "int64", "object", "datetime64[ns]"}}

\* no column at all (a JSON array of empty objects)
NoColumnTables == {[nrows |-> n, columns |-> <<>>] : n \in 0..MaxRows}

PoorColumns(n) ==
    UNION {[1..n -> PoorVals(d)] \X {d} : d \in {"float64", "object", "datetime64[ns]"}}

\* several columns of up to two rows, each of a dtype of its own
WideTables ==
    UNION {{[nrows |-> n,
             columns |-> [i \in 1..k |-> Column(ColName(i), cs[i][2], cs[i][1])]] :
                cs \in [1..k -> PoorColumns(n)]} :
            n \in 0..2, k \in 2..MaxCols}

LongVal(dtype, j) ==
    IF dtype = "float64" THEN Fin(j)
    ELSE IF dtype = "object" THEN Str(Rep("a", j))
    ELSE Ts(j)

\* one long column cycling over k distinct values, around the categorical limit
LongTables ==
    {[nrows |-> n,
      columns |-> <<Column(ColName(1), d,
                      [i \in 1..n |-> IF nullFirst /\ i = 1 THEN Null
                                      ELSE LongVal(d, ((i - 1) % k) + 1)])>>] :
        n \in (CatLimit - 2)..(CatLimit + LongSlack),
        k \in (CatLimit - 2)..(CatLimit + LongSlack),
        d \in {"float64", "object", "datetime64[ns]"},
        nullFirst \in BOOLEAN}

\* one text column with values around the length limit
LongStringTables ==
    UNION {{[nrows |-> n, columns |-> <<Column(ColName(1), "object", vs)>>] :
                vs \in [1..n -> {Str(<<"a">>), Str(Rep("x", MaxStrLen)),
                                 Str(Rep("x", MaxStrLen + 1))}]} :
            n \in 1..2}

Tables ==
    OneColumnTables \cup NoColumnTables \cup WideTables
        \cup LongTables \cup LongStringTables

\* ---------------------------------------------------------------- file names
\* a file name is a sequence of one-character strings
lower_char(c) ==
    IF c = "A" THEN "a" ELSE IF c = "C" THEN "c" ELSE IF c = "S" THEN "s"
    ELSE IF c = "V" THEN "v" ELSE c

upper_char(c) ==
    IF c = "a" THEN "A" ELSE IF c = "c" THEN "C" ELSE IF c = "s" THEN "S"
    ELSE IF c = "v" THEN "V" ELSE IF c = "j" THEN "J" ELSE IF c = "o" THEN "O"
    ELSE IF c = "n" THEN "N" ELSE IF c = "x" THEN "X" ELSE IF c = "l" THEN "L"
    ELSE IF c = "t" THEN "T" ELSE c

lower(name) == [i \in 1..Len(name) |-> lower_char(name[i])]
upper(name) == [i \in 1..Len(name) |-> upper_char(name[i])]

\* index of the last "." of name, 0 when there is none
LastDot(name) ==
    IF \E i \in 1..Len(name) : name[i] = "."
    THEN CHOOSE i \in 1..Len(name) :
            name[i] = "." /\ \A j \in (i + 1)..Len(name) : name[j] # "."
    ELSE 0

\* os.path.splitext(name)[1]: from the last dot on, unless only dots precede it
splitext(name) ==
    LET dot == LastDot(name)
    IN  IF dot = 0 \/ \A i \in 1..dot : name[i] = "." THEN <<>>
        ELSE SubSeq(name, dot, Len(name))

ALLOWED_EXTENSIONS ==
    {<<"c", "s", "v">>, <<"x", "l", "s", "x">>, <<"x", "l", "s">>,
     <<"j", "s", "o", "n">>}

\* '.' in filename and filename.rsplit('.', 1)[1].lower() in ALLOWED_EXTENSIONS
allowed_file(filename) ==
    /\ LastDot(filename) # 0
    /\ lower(SubSeq(filename, LastDot(filename) + 1, Len(filename)))
          \in ALLOWED_EXTENSIONS

RECURSIVE DropSpaces(_)
DropSpaces(name) ==
    IF name # <<>> /\ Head(name) = " " THEN DropSpaces(Tail(name)) ELSE name

\* "_".join(name.split())
RECURSIVE JoinWords(_)
JoinWords(name) ==
    IF name = <<>> THEN <<>>
    ELSE IF Head(name) = " "
         THEN LET rest == DropSpaces(name)
              IN  IF rest = <<>> THEN <<>> ELSE <<"_">> \o JoinWords(rest)
    ELSE <<Head(name)>> \o JoinWords(Tail(name))

RECURSIVE StripLeft(_)
StripLeft(name) ==
    IF name # <<>> /\ Head(name) \in {".", "_"} THEN StripLeft(Tail(name)) ELSE name

RECURSIVE StripRight(_)
StripRight(name) ==
    IF name # <<>> /\ name[Len(name)] \in {".", "_"}
    THEN StripRight(SubSeq(name, 1, Len(name) - 1)) ELSE name

\* werkzeug's secure_filename: path separators become spaces, runs of
\* whitespace become one "_", leading and trailing "." and "_" are stripped
secure_filename(name) ==
    LET spaced == [i \in 1..Len(name) |-> IF name[i] = "/" THEN " " ELSE name[i]]
    IN  StripRight(StripLeft(JoinWords(DropSpaces(spaced))))

\* f"{filename}_report.html"
report_name(filename) ==
    filename \o <<"_", "r", "e", "p", "o", "r", "t", ".", "h", "t", "m", "l">>

\* -------------------------------------------------------------- file bodies
\* a body is either the encoding of a table in the format its name declares,
\* or bytes that no reader parses (an empty file)
Data(t) == [parsable |-> TRUE, table |-> t]
Unparsable == [parsable |-> FALSE, table |-> [nrows |-> 0, columns |-> <<>>]]

has_datetime(t) ==
    \E i \in 1..Len(t.columns) : is_datetime64_any_dtype(t.columns[i].dtype)

\* ------------------------------------------------------------------- loader
\* the try / except around the readers: a DataFrame, or the ValueError raised
load_dataset(filepath, body) ==
    LET ext == lower(splitext(filepath))
        parsed == IF body.parsable THEN [ok |-> TRUE, df |-> body.table]
                  ELSE [ok |-> FALSE, exc |-> "ValueError",
                        error |-> <<"Error reading file: ", "parser message">>]
    IN  IF ext = <<".", "c", "s", "v">> THEN parsed
        ELSE IF ext \in {<<".", "x", "l", "s", "x">>, <<".", "x", "l", "s">>}
        THEN parsed
        ELSE IF ext = <<".", "j", "s", "o", "n">> THEN parsed
        ELSE [ok |-> FALSE, exc |-> "ValueError",
              error |-> <<"Error reading file: ", "Unsupported file format: ", ext>>]

\* json.dumps of every result: unique().tolist() of a datetime column holds
\* Timestamp objects under pandas 2 (not serialisable), integers under pandas 1
json_dumps_ok(results, pandas_major) ==
    \A i \in 1..Len(results) :
        (/\ results[i].expectation_type = "expect_column_values_to_be_in_set"
         /\ \E j \in 1..Len(results[i].result.partial_unexpected_list) :
                results[i].result.partial_unexpected_list[j].cls = "ts")
        => pandas_major < 2

\* the validator opening its report file before it loads the dataset
validate_dataset_report_first(filepath, body, report_dir, now, pandas_major) ==
    LET loaded == load_dataset(filepath, body)
        report_path == report_name(filepath)
        blank == [filename |-> filepath, timestamp |-> now, rows |-> 0, ncols |-> 0,
                  format |-> <<>>, body |-> NoReport]
    IN  IF ~loaded.ok
        THEN [raised |-> TRUE, error |-> loaded.error, results |-> <<>>,
              reports |-> (report_path :> blank) @@ report_dir,
              report_path |-> <<>>]
        ELSE [raised |-> FALSE, error |-> <<>>,
              results |-> run_checks(loaded.df),
              reports |-> (report_path :> blank) @@ report_dir,
              report_path |-> report_path]

\* validate_dataset_with_expectations(filepath, report_folder): what it
\* returns or raises, the checks it ran and the report directory it leaves
validate_dataset_with_expectations(filepath, body, report_dir, now, pandas_major) ==
    LET loaded == load_dataset(filepath, body)
    IN  IF ~loaded.ok
        THEN [raised |-> TRUE, error |-> loaded.error,
              results |-> <<>>, reports |-> report_dir, report_path |-> <<>>]
        ELSE LET results == run_checks(loaded.df)
                 filename == filepath
                 report_path == report_name(filename)
                 html == [filename |-> filename,
                          timestamp |-> now,
                          rows |-> loaded.df.nrows,
                          ncols |-> Len(loaded.df.columns),
                          format |-> upper(lower(splitext(filepath))),
                          body |-> build_report(results)]
             IN  IF ~json_dumps_ok(results, pandas_major)
                 THEN [raised |-> TRUE,
                       error |-> <<"Object of type Timestamp is not JSON serializable">>,
                       results |-> results, reports |-> report_dir,
                       report_path |-> <<>>]
                 ELSE [raised |-> FALSE, error |-> <<>>,
                       results |-> results,
                       reports |-> (report_path :> html) @@ report_dir,
                       report_path |-> report_path]

\* ------------------------------------------------------------------- state
VARIABLES
    df,                  \* the loaded DataFrame of the validator run
    pc,                  \* where the validator run stands
    validation_results,  \* the list the checks are appended to
    report,              \* statistics and groups computed for the document
    uploads,             \* the upload directory: stored name -> body
    reports,             \* the report directory: report name -> document
    response             \* the response of the last request

vars == <<df, pc, validation_results, report, uploads, reports, response>>

NoFiles == <<>>
NoRequest == [op |-> "none", filename |-> <<>>]
NoResponse == [request |-> NoRequest, status |-> 0, kind |-> "none", detail |-> <<>>]

\* ------------------------------------------- the validator, step by step
\* the run after a successful load, validation_results = []
BatteryInit ==
    /\ df \in Tables
    /\ pc = "loaded"
    /\ validation_results = <<>>
    /\ report = NoReport
    /\ uploads = NoFiles
    /\ reports = NoFiles
    /\ response = NoResponse

\* the table-level checks and the column loop
RunChecks ==
    /\ pc = "loaded"
    /\ validation_results' = run_checks(df)
    /\ pc' = "checked"
    /\ UNCHANGED <<df, report, uploads, reports, response>>

\* statistics and grouping
BuildReport ==
    /\ pc = "checked"
    /\ report' = build_report(validation_results)
    /\ pc' = "built"
    /\ UNCHANGED <<df, validation_results, uploads, reports, response>>

BatteryNext == RunChecks \/ BuildReport

SpecBattery == BatteryInit /\ [][BatteryNext]_vars

\* ------------------------------------------------- the request handlers
Times == 1..MaxTime

N_a_csv == <<"a", ".", "c", "s", "v">>
N_A_CSV == <<"A", ".", "C", "S", "V">>
N_b_json == <<"b", ".", "j", "s", "o", "n">>
N_d_xls == <<"d", ".", "x", "l", "s">>
N_c_txt == <<"c", ".", "t", "x", "t">>
N_dot_csv == <<".", "c", "s", "v">>
N_x_a_csv == <<"x", "/", "a", ".", "c", "s", "v">>

\* the file names a client sends
RequestNames ==
    {<<>>, N_a_csv, N_A_CSV, N_b_json, N_d_xls, N_c_txt, N_dot_csv, N_x_a_csv}

\* the names a validate URL can carry: every stored name and one never stored
UrlNames == {secure_filename(n) : n \in RequestNames \ {<<>>}}

T_numbers ==
    [nrows |-> 2, columns |-> <<Column("a", "float64", <<Fin(2), Null>>),
                                Column("b", "object", <<Str(<<"a">>), Str(<<"b">>)>>)>>]
T_dates ==
    [nrows |-> 2, columns |-> <<Column("a", "datetime64[ns]", <<Ts(1), Ts(2)>>)>>]
T_empty == [nrows |-> 0, columns |-> <<Column("a", "object", <<>>)>>]

FileTables == {T_numbers, T_dates, T_empty}

\* read_csv never yields a datetime column
Bodies(name) ==
    {Unparsable} \cup
    {Data(t) : t \in {u \in FileTables :
                        lower(splitext(secure_filename(name))) = <<".", "c", "s", "v">>
                            => ~has_datetime(u)}}

StaleReport ==
    [filename |-> <<"o", "l", "d">>, timestamp |-> 1, rows |-> 0, ncols |-> 0,
     format |-> <<>>, body |-> NoReport]

\* the directories as app.py finds them: makedirs keeps what is there
Init ==
    /\ df = [nrows |-> 0, columns |-> <<>>]
    /\ pc = "idle"
    /\ validation_results = <<>>
    /\ report = NoReport
    /\ uploads \in {NoFiles, N_c_txt :> Data(T_numbers), N_a_csv :> Data(T_numbers)}
    /\ reports \in {NoFiles, report_name(<<"o", "l", "d">>) :> StaleReport}
    /\ response = NoResponse

\* a cleanup that empties the upload directory only
clean_folders_uploads_only == [uploads |-> NoFiles, reports |-> reports]

\* clean_folders(): every file of both directories is removed
clean_folders == [uploads |-> NoFiles, reports |-> NoFiles]

\* POST /upload
upload_file ==
    \E has_part \in BOOLEAN, name \in RequestNames :
    \E body \in Bodies(name) :
        LET cleaned == clean_folders
            request == [op |-> "upload", filename |-> name]
        IN  /\ reports' = cleaned.reports
            /\ IF ~has_part
               THEN /\ response' = [request |-> request, status |-> 400, kind |-> "error",
                                    detail |-> <<"No file part">>]
                    /\ uploads' = cleaned.uploads
               ELSE IF name = <<>>
               THEN /\ response' = [request |-> request, status |-> 400, kind |-> "error",
                                    detail |-> <<"No file selected">>]
                    /\ uploads' = cleaned.uploads
               ELSE IF ~allowed_file(name)
               THEN /\ response' = [request |-> request, status |-> 400, kind |-> "error",
                                    detail |-> <<"Invalid file type. Allowed: ",
                                                 ALLOWED_EXTENSIONS>>]
                    /\ uploads' = cleaned.uploads
               ELSE LET filename == secure_filename(name)
                    IN  /\ uploads' = (filename :> body) @@ cleaned.uploads
                        /\ response' = [request |-> request, status |-> 200,
                                        kind |-> "success",
                                        detail |-> <<"redirect", filename>>]
            /\ UNCHANGED <<df, pc, validation_results, report>>

\* a handler without the os.path.exists check: the validator is called on the
\* missing path and its reader raises
validate_file_unchecked ==
    \E filename \in UrlNames, now \in Times, pandas_major \in {1, 2} :
        LET request == [op |-> "validate", filename |-> filename]
            body == IF filename \in DOMAIN uploads THEN uploads[filename]
                    ELSE Unparsable
            result == validate_dataset_with_expectations(
                          filename, body, reports, now, pandas_major)
        IN  /\ validation_results' = result.results
            /\ reports' = result.reports
            /\ response' =
                   IF result.raised
                   THEN [request |-> request, status |-> 500,
                         kind |-> "validation_error",
                         detail |-> result.error]
                   ELSE [request |-> request, status |-> 200, kind |-> "report",
                         detail |-> <<result.reports[result.report_path]>>]
            /\ UNCHANGED <<df, pc, report, uploads>>

\* GET /validate/<filename>
validate_file ==
    \E filename \in UrlNames, now \in Times, pandas_major \in {1, 2} :
        LET request == [op |-> "validate", filename |-> filename] IN
        IF filename \notin DOMAIN uploads
        THEN /\ response' = [request |-> request, status |-> 404, kind |-> "not_found",
                             detail |-> <<filename>>]
             /\ UNCHANGED <<df, pc, validation_results, report, uploads, reports>>
        ELSE LET result == validate_dataset_with_expectations(
                               filename, uploads[filename], reports, now, pandas_major)
             IN  /\ validation_results' = result.results
                 /\ reports' = result.reports
                 /\ response' =
                        IF result.raised
                        THEN [request |-> request, status |-> 500,
                              kind |-> "validation_error",
                              detail |-> result.error]
                        ELSE [request |-> request, status |-> 200, kind |-> "report",
                              detail |-> <<result.reports[result.report_path]>>]
                 /\ UNCHANGED <<df, pc, report, uploads>>

Next == upload_file \/ validate_file

Spec == Init /\ [][Next]_vars

\* ------------------------------------------------- requests served in parallel
\* One upload request and one validate request at a time, each advancing by
\* the file system calls of its handler.  pc and response hold one entry per
\* handler; df and validation_results are the validator's locals.
ConcNames == {<<>>, N_a_csv, N_b_json, N_c_txt}
ConcUrlNames == {N_a_csv, N_b_json}
ConcBodies == {Data(T_numbers), Data(T_empty)}

\* what open() and os.stat() raise for a path that is gone
ENOENT == "No such file or directory"

Pending(request) == [request |-> request, status |-> 0, kind |-> "pending", detail |-> <<>>]
Answer(request, status, kind, detail) ==
    [request |-> request, status |-> status, kind |-> kind, detail |-> detail]

ConcInit ==
    /\ df = [nrows |-> 0, columns |-> <<>>]
    /\ pc = [upload |-> "idle", validate |-> "idle"]
    /\ validation_results = <<>>
    /\ report = NoReport
    /\ uploads = NoFiles
    /\ reports = NoFiles
    /\ response = [upload |-> NoResponse, validate |-> NoResponse]

\* POST /upload arrives
upload_request ==
    /\ pc.upload = "idle"
    /\ \E has_part \in BOOLEAN, name \in ConcNames, body \in ConcBodies :
        response' = [response EXCEPT !.upload =
                        Pending([op |-> "upload", filename |-> name,
                                 has_part |-> has_part, body |-> body])]
    /\ pc' = [pc EXCEPT !.upload = "clean_uploads"]
    /\ UNCHANGED <<df, validation_results, report, uploads, reports>>

\* a cleanup that waits until no validate request is in progress
upload_clean_uploads_locked ==
    /\ pc.upload = "clean_uploads"
    /\ pc.validate = "idle"
    /\ uploads' = clean_folders.uploads
    /\ pc' = [pc EXCEPT !.upload = "clean_reports"]
    /\ UNCHANGED <<df, validation_results, report, reports, response>>

\* clean_folders(): the loop over the uploads folder
upload_clean_uploads ==
    /\ pc.upload = "clean_uploads"
    /\ uploads' = clean_folders.uploads
    /\ pc' = [pc EXCEPT !.upload = "clean_reports"]
    /\ UNCHANGED <<df, validation_results, report, reports, response>>

\* clean_folders(): the loop over the reports folder
upload_clean_reports ==
    /\ pc.upload = "clean_reports"
    /\ reports' = clean_folders.reports
    /\ pc' = [pc EXCEPT !.upload = "check"]
    /\ UNCHANGED <<df, validation_results, report, uploads, response>>

\* the three rejections, or on to file.save
upload_check ==
    /\ pc.upload = "check"
    /\ LET request == response.upload.request
       IN  IF ~request.has_part
           THEN /\ response' = [response EXCEPT !.upload =
                                   Answer(request, 400, "error", <<"No file part">>)]
                /\ pc' = [pc EXCEPT !.upload = "idle"]
           ELSE IF request.filename = <<>>
           THEN /\ response' = [response EXCEPT !.upload =
                                   Answer(request, 400, "error", <<"No file selected">>)]
                /\ pc' = [pc EXCEPT !.upload = "idle"]
           ELSE IF ~allowed_file(request.filename)
           THEN /\ response' = [response EXCEPT !.upload =
                                   Answer(request, 400, "error",
                                          <<"Invalid file type. Allowed: ",
                                            ALLOWED_EXTENSIONS>>)]
                /\ pc' = [pc EXCEPT !.upload = "idle"]
           ELSE /\ pc' = [pc EXCEPT !.upload = "save_open"]
                /\ UNCHANGED response
    /\ UNCHANGED <<df, validation_results, report, uploads, reports>>

\* file.save: the destination is opened for writing, empty
upload_save_open ==
    /\ pc.upload = "save_open"
    /\ uploads' = (secure_filename(response.upload.request.filename) :> Unparsable)
                    @@ uploads
    /\ pc' = [pc EXCEPT !.upload = "save_write"]
    /\ UNCHANGED <<df, validation_results, report, reports, response>>

\* file.save: the content is written; the success answer
upload_save_write ==
    /\ pc.upload = "save_write"
    /\ LET request == response.upload.request
           filename == secure_filename(request.filename)
       IN  /\ uploads' = (filename :> request.body) @@ uploads
           /\ response' = [response EXCEPT !.upload =
                              Answer(request, 200, "success", <<"redirect", filename>>)]
    /\ pc' = [pc EXCEPT !.upload = "idle"]
    /\ UNCHANGED <<df, validation_results, report, reports>>

\* GET /validate/<filename> arrives: the os.path.exists check
validate_exists ==
    /\ pc.validate = "idle"
    /\ \E filename \in ConcUrlNames :
        LET request == [op |-> "validate", filename |-> filename]
        IN  IF filename \notin DOMAIN uploads
            THEN /\ response' = [response EXCEPT !.validate =
                                    Answer(request, 404, "not_found", <<filename>>)]
                 /\ UNCHANGED pc
            ELSE /\ response' = [response EXCEPT !.validate = Pending(request)]
                 /\ pc' = [pc EXCEPT !.validate = "load"]
    /\ UNCHANGED <<df, validation_results, report, uploads, reports>>

\* the validator reads the file and runs the battery
validate_load ==
    /\ pc.validate = "load"
    /\ LET request == response.validate.request
           filename == request.filename
           loaded == IF filename \in DOMAIN uploads
                     THEN load_dataset(filename, uploads[filename])
                     ELSE [ok |-> FALSE, exc |-> "ValueError",
                           error |-> <<"Error reading file: ", ENOENT>>]
       IN  IF ~loaded.ok
           THEN /\ response' = [response EXCEPT !.validate =
                                   Answer(request, 500, "validation_error", loaded.error)]
                /\ pc' = [pc EXCEPT !.validate = "idle"]
                /\ UNCHANGED <<df, validation_results>>
           ELSE /\ df' = loaded.df
                /\ validation_results' = run_checks(loaded.df)
                /\ pc' = [pc EXCEPT !.validate = "write"]
                /\ UNCHANGED response
    /\ UNCHANGED <<report, uploads, reports>>

\* the validator renders the document and writes the report file
validate_write ==
    /\ pc.validate = "write"
    /\ \E now \in Times, pandas_major \in {1, 2} :
        LET request == response.validate.request
            filename == request.filename
            html == [filename |-> filename,
                     timestamp |-> now,
                     rows |-> df.nrows,
                     ncols |-> Len(df.columns),
                     format |-> upper(lower(splitext(filename))),
                     body |-> build_report(validation_results)]
        IN  IF ~json_dumps_ok(validation_results, pandas_major)
            THEN /\ response' = [response EXCEPT !.validate =
                                    Answer(request, 500, "validation_error",
                                           <<"Object of type Timestamp is not JSON serializable">>)]
                 /\ pc' = [pc EXCEPT !.validate = "idle"]
                 /\ UNCHANGED reports
            ELSE /\ reports' = (report_name(filename) :> html) @@ reports
                 /\ pc' = [pc EXCEPT !.validate = "send"]
                 /\ UNCHANGED response
    /\ UNCHANGED <<df, validation_results, report, uploads>>

\* send_file(result["report_path"]) inside the try block
validate_send ==
    /\ pc.validate = "send"
    /\ LET request == response.validate.request
           report_path == report_name(request.filename)
       IN  response' = [response EXCEPT !.validate =
                IF report_path \in DOMAIN reports
                THEN Answer(request, 200, "report", <<reports[report_path]>>)
                ELSE Answer(request, 500, "validation_error", <<ENOENT>>)]
    /\ pc' = [pc EXCEPT !.validate = "idle"]
    /\ UNCHANGED <<df, validation_results, report, uploads, reports>>

ConcNext ==
    \/ upload_request
    \/ upload_clean_uploads
    \/ upload_clean_reports
    \/ upload_check
    \/ upload_save_open
    \/ upload_save_write
    \/ validate_exists
    \/ validate_load
    \/ validate_write
    \/ validate_send

SpecConcurrent == ConcInit /\ [][ConcNext]_vars

\* ==================================================================== claims
\* the checks of the run have been appended
Ran == pc \in {"checked", "built"}

\* position in df.columns of the column a column-scoped result names
ColIndex(res) ==
    CHOOSE i \in 1..Len(df.columns) : df.columns[i].name = res.column[1]

\* place of a check kind in the per-column order
KindRank(kind) ==
    CASE kind = "expect_column_values_to_not_be_null" -> 1
      [] kind = "expect_column_values_to_be_in_type_list" -> 2
      [] kind = "expect_column_values_to_be_between" -> 3
      [] kind = "expect_column_value_lengths_to_be_between" -> 3
      [] kind = "expect_column_mean_to_be_between" -> 4
      [] kind = "expect_column_median_to_be_between" -> 5
      [] kind = "expect_column_values_to_be_unique" -> 6
      [] kind = "expect_column_values_to_be_in_set" -> 7
      [] OTHER -> 0

\* the positions of the results of kind `kind` for the column named `name`
Positions(name, kind) ==
    {i \in 1..Len(validation_results) :
        /\ validation_results[i].column = <<name>>
        /\ validation_results[i].expectation_type = kind}

\* the positions of all results for the column named `name`
ColumnPositions(name) ==
    {i \in 1..Len(validation_results) : validation_results[i].column = <<name>>}

\* C1: the results start with exactly the three table-scoped results
\* row_count, columns_match, columns_unique in that order; every later result
\* is column-scoped and names a column of the table; column results follow
\* the table's column order (so each column's results are contiguous); within
\* one column the kinds follow the order not_null, type, range/length, mean,
\* median, unique, in_set.
C1_Ordering ==
    Ran =>
        LET R == validation_results
        IN  /\ Len(R) >= 3
            /\ R[1].expectation_type = "expect_table_row_count_to_be_greater_than"
            /\ R[2].expectation_type = "expect_table_columns_to_match_set"
            /\ R[3].expectation_type = "expect_table_columns_to_be_unique"
            /\ \A i \in 1..3 : R[i].column = <<>>
            /\ \A i \in 4..Len(R) :
                /\ R[i].column # <<>>
                /\ \E c \in 1..Len(df.columns) : df.columns[c].name = R[i].column[1]
                /\ KindRank(R[i].expectation_type) > 0
            /\ \A i, j \in 4..Len(R) :
                i < j =>
                    /\ ColIndex(R[i]) <= ColIndex(R[j])
                    /\ R[i].column = R[j].column
                        => KindRank(R[i].expectation_type)
                            < KindRank(R[j].expectation_type)

\* C1 witness: two columns, the first with all seven numeric results and the
\* second with all five text results
C1_Witness ==
    /\ pc = "checked"
    /\ Len(df.columns) = 2
    /\ Cardinality(ColumnPositions(df.columns[1].name)) = 7
    /\ Cardinality(ColumnPositions(df.columns[2].name)) = 5
    /\ Len(validation_results) = 15

\* C2: the first result is the row count check; it passed iff the table has
\* more than zero rows and its observed value is the table's row count.
C2_RowCount ==
    Ran =>
        LET res == validation_results[1]
        IN  /\ res.expectation_type = "expect_table_row_count_to_be_greater_than"
            /\ res.success <=> df.nrows > 0
            /\ res.result.observed_value = df.nrows

\* C2 witness: a table with columns and no rows, whose row count check failed
C2_Witness ==
    /\ pc = "checked"
    /\ df.nrows = 0
    /\ Len(df.columns) > 0
    /\ ~validation_results[1].success
    /\ validation_results[1].result.observed_value = 0

\* the columns of the table
Cols == {df.columns[i] : i \in 1..Len(df.columns)}

\* the non-null cells of a column, as a set
NonNull(col) == {v \in SeqToSet(col.values) : v.cls # "null"}

AllNull(col) == \A i \in 1..Len(col.values) : col.values[i].cls = "null"

\* the float x equals the integer n
FloatIs(x, n) == x.cls = "fin" /\ x.num = n * x.den

\* C3 as stated: every all-null column, in a table of any row count
\* (zero rows included), has exactly one result, a failed not_null with
\* null_count = row count and null_percent = 100.00.
C3_AllNullAnyRowCount ==
    Ran =>
        \A col \in Cols :
            AllNull(col) =>
                /\ Cardinality(ColumnPositions(col.name)) = 1
                /\ \A i \in ColumnPositions(col.name) :
                    LET res == validation_results[i]
                    IN  /\ res.expectation_type = "expect_column_values_to_not_be_null"
                        /\ ~res.success
                        /\ res.result.missing_count = df.nrows
                        /\ FloatIs(res.result.missing_percent, 100)

\* C3 amended: every all-null column has exactly one result, a not_null with
\* null_count = row count; in a table with at least one row it failed with
\* null_percent = 100.00, in a table with zero rows it passed with
\* null_percent = 0.
C3_AllNull ==
    Ran =>
        \A col \in Cols :
            AllNull(col) =>
                /\ Cardinality(ColumnPositions(col.name)) = 1
                /\ \A i \in ColumnPositions(col.name) :
                    LET res == validation_results[i]
                    IN  /\ res.expectation_type = "expect_column_values_to_not_be_null"
                        /\ res.result.missing_count = df.nrows
                        /\ IF df.nrows > 0
                           THEN /\ ~res.success
                                /\ FloatIs(res.result.missing_percent, 100)
                           ELSE /\ res.success
                                /\ FloatIs(res.result.missing_percent, 0)

\* C3 witness: a column of three nulls, whose only result is the failed
\* not_null with null_count 3 and null_percent 100.00
C3_Witness ==
    /\ pc = "checked"
    /\ df.nrows = 3
    /\ \E col \in Cols :
        /\ AllNull(col)
        /\ \E i \in ColumnPositions(col.name) :
            /\ ColumnPositions(col.name) = {i}
            /\ ~validation_results[i].success
            /\ validation_results[i].result.missing_count = 3
            /\ validation_results[i].result.missing_percent = Flt(10000, 100)

\* the float m is the least (greatest) of the non-null cells of a column
IsTrueMin(m, col) ==
    /\ \E v \in NonNull(col) : float(v) = m
    /\ \A v \in NonNull(col) : Leq(m, float(v))
IsTrueMax(m, col) ==
    /\ \E v \in NonNull(col) : float(v) = m
    /\ \A v \in NonNull(col) : Leq(float(v), m)

\* C4 as stated: every numeric column with a non-null value has one
\* value_range result that passed and records the true min and max, one mean
\* result and one median result, and both of these passed.
C4_MeanMedianAlwaysPass ==
    Ran =>
        \A col \in Cols :
            (is_numeric_dtype(col.dtype) /\ NonNull(col) # {}) =>
                /\ \E i \in Positions(col.name, "expect_column_values_to_be_between") :
                    /\ Positions(col.name, "expect_column_values_to_be_between") = {i}
                    /\ validation_results[i].success
                    /\ IsTrueMin(validation_results[i].result.observed_value.min, col)
                    /\ IsTrueMax(validation_results[i].result.observed_value.max, col)
                /\ \E i \in Positions(col.name, "expect_column_mean_to_be_between") :
                    /\ Positions(col.name, "expect_column_mean_to_be_between") = {i}
                    /\ validation_results[i].success
                /\ \E i \in Positions(col.name, "expect_column_median_to_be_between") :
                    /\ Positions(col.name, "expect_column_median_to_be_between") = {i}
                    /\ validation_results[i].success

\* the lengths of the text forms of the non-null cells of a column
TextLengths(col) == {Len(astype_str(v)) : v \in NonNull(col)}

\* C5: every text column with a non-null value has one length result; it
\* passed iff no text form is longer than 255, so a value of length 256 makes
\* it fail; its min and max are the shortest and the longest length.
C5_LengthRange ==
    Ran =>
        \A col \in Cols :
            (is_string_dtype(col.dtype) /\ NonNull(col) # {}) =>
                \E i \in Positions(col.name, "expect_column_value_lengths_to_be_between") :
                    LET res == validation_results[i]
                        lens == TextLengths(col)
                    IN  /\ Positions(col.name,
                                "expect_column_value_lengths_to_be_between") = {i}
                        /\ res.success <=> \A l \in lens : l <= 255
                        /\ 256 \in lens => ~res.success
                        /\ res.result.observed_value.min \in lens
                        /\ \A l \in lens : res.result.observed_value.min <= l
                        /\ res.result.observed_value.max \in lens
                        /\ \A l \in lens : l <= res.result.observed_value.max

\* C5 witness: a text column holding a value of length 256 next to a
\* compliant one, whose length result failed with max 256
C5_Witness ==
    /\ pc = "checked"
    /\ \E col \in Cols :
        /\ is_string_dtype(col.dtype)
        /\ 256 \in TextLengths(col)
        /\ 1 \in TextLengths(col)
        /\ \E i \in Positions(col.name, "expect_column_value_lengths_to_be_between") :
            /\ ~validation_results[i].success
            /\ validation_results[i].result.observed_value = [min |-> 1, max |-> 256]

\* C6: values_unique is emitted for a column iff the column is numeric or
\* text, has a non-null value and has as many distinct non-null values as the
\* table has rows; when emitted it is emitted once, the column holds no null
\* and no repeated value, it passed with unique_count = total_count, and the
\* column's not_null result passed.
C6_ValuesUnique ==
    Ran =>
        \A col \in Cols :
            LET P == Positions(col.name, "expect_column_values_to_be_unique")
                due == /\ is_numeric_dtype(col.dtype) \/ is_string_dtype(col.dtype)
                       /\ NonNull(col) # {}
                       /\ Cardinality(NonNull(col)) = df.nrows
            IN  /\ P # {} <=> due
                /\ \A i \in P :
                    LET res == validation_results[i]
                    IN  /\ P = {i}
                        /\ \A r \in 1..df.nrows : col.values[r].cls # "null"
                        /\ \A r1, r2 \in 1..df.nrows :
                            r1 # r2 => col.values[r1] # col.values[r2]
                        /\ res.success
                        /\ res.result.unique_count = res.result.total_count
                        /\ res.result.total_count = df.nrows
                        /\ \A n \in Positions(col.name,
                                    "expect_column_values_to_not_be_null") :
                            validation_results[n].success

\* C6 witness: a column of three distinct values for which values_unique
\* was emitted
C6_Witness ==
    /\ pc = "checked"
    /\ df.nrows = 3
    /\ \E col \in Cols :
        \E i \in Positions(col.name, "expect_column_values_to_be_unique") :
            validation_results[i].result.unique_count = 3

\* C7: values_in_set is emitted for a column, whatever its dtype, iff it
\* has between 1 and 29 distinct non-null values; when emitted it is emitted
\* once, passed, has unexpected count 0 and lists the first
\* min(5, distinct count) distinct values in order of first appearance.
C7_ValuesInSet ==
    Ran =>
        \A col \in Cols :
            LET P == Positions(col.name, "expect_column_values_to_be_in_set")
                d == Cardinality(NonNull(col))
            IN  /\ P # {} <=> (1 <= d /\ d <= 29)
                /\ d >= 30 => P = {}
                /\ \A i \in P :
                    LET res == validation_results[i]
                        list == res.result.partial_unexpected_list
                    IN  /\ P = {i}
                        /\ res.success
                        /\ res.result.unexpected_count = 0
                        /\ res.result.observed_value = d
                        /\ Len(list) <= 5
                        /\ Len(list) = IF d < 5 THEN d ELSE 5
                        /\ \A k \in 1..Len(list) :
                            \E r \in 1..df.nrows :
                                /\ col.values[r] = list[k]
                                /\ \A q \in 1..(r - 1) :
                                    \/ col.values[q].cls = "null"
                                    \/ \E j \in 1..(k - 1) : col.values[q] = list[j]

\* C7 witness: a datetime column with 29 distinct values, for which
\* values_in_set was emitted listing five values
C7_Witness ==
    /\ pc = "checked"
    /\ \E col \in Cols :
        /\ is_datetime64_any_dtype(col.dtype)
        /\ Cardinality(NonNull(col)) = 29
        /\ \E i \in Positions(col.name, "expect_column_values_to_be_in_set") :
            /\ validation_results[i].success
            /\ Len(validation_results[i].result.partial_unexpected_list) = 5

\* C9: in the report built, total is the number of results, passed the
\* number of results with success true, failed = total - passed, so
\* passed + failed = total and 0 <= passed <= total; the success rate is
\* passed / total * 100 (0 for no results) and lies within 0..100.
C9_Summary ==
    pc = "built" =>
        LET st == report.stats
            R == validation_results
            passed == Cardinality({i \in 1..Len(R) : R[i].success})
            rate == st.success_rate
        IN  /\ st.total_expectations = Len(R)
            /\ st.successful = passed
            /\ st.failed = st.total_expectations - st.successful
            /\ st.successful + st.failed = st.total_expectations
            /\ 0 <= st.successful /\ st.successful <= st.total_expectations
            /\ rate.cls = "fin"
            /\ IF Len(R) = 0 THEN rate.num = 0
               ELSE rate.num * Len(R) = passed * 100 * rate.den
            /\ Leq(Flt(0, 1), rate) /\ Leq(rate, Flt(100, 1))

\* C9 witness: a report over ten results of which two failed (80 percent)
C9_Witness ==
    /\ pc = "built"
    /\ report.stats.total_expectations = 10
    /\ report.stats.failed = 2
    /\ report.stats.successful = 8
    /\ report.stats.success_rate = Flt(800, 10)

SupportedExtensions ==
    {<<".", "c", "s", "v">>, <<".", "x", "l", "s", "x">>, <<".", "x", "l", "s">>,
     <<".", "j", "s", "o", "n">>}

\* the stored file `filename` does not load: its extension is not supported
\* or its content does not parse
LoadFails(filename) ==
    /\ filename \in DOMAIN uploads
    /\ \/ lower(splitext(filename)) \notin SupportedExtensions
       \/ ~uploads[filename].parsable

\* C10: a validate request for a stored file that does not load ends in the
\* validation error, with no check run and the report directory exactly as
\* it was before the request.
C10_LoadFailureWritesNothing ==
    [][(response'.request.op = "validate" /\ LoadFails(response'.request.filename))
        => /\ response'.status = 500
           /\ response'.kind = "validation_error"
           /\ response'.detail[1] = "Error reading file: "
           /\ validation_results' = <<>>
           /\ reports' = reports]_vars

\* C10 witness: the validation error of a stored file with an unsupported
\* extension, the report directory still holding the report it held before
C10_Witness ==
    /\ response.request.op = "validate"
    /\ response.kind = "validation_error"
    /\ LoadFails(response.request.filename)
    /\ validation_results = <<>>
    /\ reports = report_name(<<"o", "l", "d">>) :> StaleReport

\* the stored file `filename` has an extension the loader does not read
Unsupported(filename) ==
    /\ filename \in DOMAIN uploads
    /\ lower(splitext(filename)) \notin SupportedExtensions

\* C11 (as stated): a validate request for a stored file with an unsupported
\* extension fails with an error of another class than the one a parse failure
\* raises, and the message it surfaces lists every supported format.
C11_UnsupportedFormatDistinct ==
    LET filename == response.request.filename
    IN  (response.request.op = "validate" /\ Unsupported(filename))
        => /\ load_dataset(filename, uploads[filename]).exc
                # load_dataset(N_a_csv, Unparsable).exc
           /\ \A ext \in ALLOWED_EXTENSIONS :
                \E i \in 1..Len(response.detail) : ext = response.detail[i]

\* C12: a validate request naming a file that is not in the upload directory
\* ends in the not-found outcome (404, not the validation error), the
\* validator is not called and the report directory is left as it was.
C12_MissingFileNotFound ==
    [][(response'.request.op = "validate"
        /\ response'.request.filename \notin DOMAIN uploads)
        => /\ response'.status = 404
           /\ response'.kind = "not_found"
           /\ response'.kind # "validation_error"
           /\ validation_results' = validation_results
           /\ reports' = reports
           /\ uploads' = uploads]_vars

\* C12 witness: the not-found answer for a file that was never stored, given
\* while the upload directory holds another file whose report exists
C12_Witness ==
    /\ response.request.op = "validate"
    /\ response.request.filename \notin DOMAIN uploads
    /\ response.kind = "not_found"
    /\ uploads # NoFiles
    /\ validation_results # <<>>
    /\ \E f \in DOMAIN uploads : report_name(f) \in DOMAIN reports

\* C13: for a table with zero rows and k >= 1 columns the battery emits
\* exactly 3 + k results: the failed row count check with observed value 0,
\* the columns-present and columns-unique checks, and for each column, in
\* column order, one not_null result that passed with null count 0 and null
\* percent 0; no other column check is emitted.
C13_ZeroRows ==
    (Ran /\ df.nrows = 0 /\ Len(df.columns) >= 1) =>
        LET R == validation_results
            k == Len(df.columns)
        IN  /\ Len(R) = 3 + k
            /\ R[1].expectation_type = "expect_table_row_count_to_be_greater_than"
            /\ ~R[1].success
            /\ R[1].result.observed_value = 0
            /\ R[2].expectation_type = "expect_table_columns_to_match_set"
            /\ R[3].expectation_type = "expect_table_columns_to_be_unique"
            /\ \A c \in 1..k :
                /\ R[3 + c].expectation_type = "expect_column_values_to_not_be_null"
                /\ R[3 + c].column = <<df.columns[c].name>>
                /\ R[3 + c].success
                /\ R[3 + c].result.missing_count = 0
                /\ FloatIs(R[3 + c].result.missing_percent, 0)

\* C13 witness: an empty table of two columns, a float and a text one, with
\* its five results
C13_Witness ==
    /\ pc = "checked"
    /\ df.nrows = 0
    /\ Len(df.columns) = 2
    /\ df.columns[1].dtype = "float64"
    /\ df.columns[2].dtype = "object"
    /\ Len(validation_results) = 5
    /\ validation_results[5].success

\* the groups of the report in the order the document shows them: the
\* table-scoped group (column <<>>), then the column groups
Groups ==
    <<[column |-> <<>>, expectations |-> report.global]>>
    \o [i \in 1..Len(report.columns) |->
            [column |-> <<report.columns[i].col>>,
             expectations |-> report.columns[i].expectations]]

\* col_success and col_total of a group
Passed(group) ==
    Cardinality({j \in 1..Len(group.expectations) : group.expectations[j].success})
Total(group) == Len(group.expectations)

RECURSIVE SumPassed(_)
SumPassed(groups) ==
    IF groups = <<>> THEN 0 ELSE Passed(Head(groups)) + SumPassed(Tail(groups))

RECURSIVE SumTotal(_)
SumTotal(groups) ==
    IF groups = <<>> THEN 0 ELSE Total(Head(groups)) + SumTotal(Tail(groups))

\* the places (group, position) where the result `res` is shown
Places(res) ==
    {p \in (1..Len(Groups)) \X (1..Len(validation_results)) :
        /\ p[2] <= Len(Groups[p[1]].expectations)
        /\ Groups[p[1]].expectations[p[2]] = res}

\* the position of a shown result in validation_results
Emitted(res) ==
    CHOOSE i \in 1..Len(validation_results) : validation_results[i] = res

OneFileOneReport(files, docs) ==
    /\ Cardinality(DOMAIN files) <= 1
    /\ Cardinality(DOMAIN docs) <= 1
    /\ \A r \in DOMAIN docs : \E f \in DOMAIN files : r = report_name(f)

C17_RejectedUploadKeepsFiles ==
    [][(response'.request.op = "upload" /\ response'.status = 400)
        => /\ uploads' = uploads
           /\ reports' = reports]_vars

\* C16: nothing makes an upload request's cleanup wait for a validate request
\* in progress: whenever the cleanup of either directory is next it can run,
\* and it empties the directory, whatever the validate request has done so
\* far; a validate request that passed its existence check and then finds its
\* file gone when it reads it, or its report gone when it sends it, ends in
\* the validation error instead of the report.
C16_CleanupUnguarded ==
    [][/\ (pc.upload = "clean_uploads" /\ pc.validate # "idle")
            => ENABLED upload_clean_uploads
       /\ (pc.upload = "clean_reports" /\ pc.validate # "idle")
            => ENABLED upload_clean_reports
       /\ (pc.upload = "clean_uploads" /\ pc'.upload = "clean_reports")
            => uploads' = NoFiles
       /\ (pc.upload = "clean_reports" /\ pc'.upload = "check")
            => reports' = NoFiles
       /\ (/\ pc.validate = "load" /\ pc'.validate # "load"
           /\ response.validate.request.filename \notin DOMAIN uploads)
            => /\ response'.validate.status = 500
               /\ response'.validate.kind = "validation_error"
       /\ (/\ pc.validate = "send" /\ pc'.validate # "send"
           /\ report_name(response.validate.request.filename) \notin DOMAIN reports)
            => /\ response'.validate.status = 500
               /\ response'.validate.kind = "validation_error"]_vars

\* C16 witness: a validate request for a.csv ended in the validation error
\* although the file was uploaded in full, loaded and checked and its report
\* written: the report was gone when it was to be sent
C16_Witness ==
    /\ pc.validate = "idle"
    /\ response.validate.request = [op |-> "validate", filename |-> N_a_csv]
    /\ response.validate.status = 500
    /\ response.validate.kind = "validation_error"
    /\ response.validate.detail = <<ENOENT>>
    /\ df = T_numbers
    /\ validation_results = run_checks(T_numbers)
    /\ reports = NoFiles

====
